---- MODULE Spec2Model ----
(***************************************************************************)
(* Model of the detailer crate (src/src/detailer.rs): one Detailer, the    *)
(* DetailScopeGuards it issues, the log crate's sink and the clock.        *)
(*                                                                         *)
(* Text is a sequence of one-character strings.  An Instant is a number of *)
(* microseconds.  A negative current_indentation would denote a wrapped    *)
(* usize (fetch_sub below zero).                                           *)
(***************************************************************************)
EXTENDS Integers, Sequences, FiniteSets, TLC

VARIABLES
    level,                \* Detailer.level: log::LevelFilter
    accumulated,          \* Detailer.accumulated: String
    current_indentation,  \* the shared Arc<AtomicUsize>
    start,                \* Detailer.start: Option<Instant>
    guards,               \* the live DetailScopeGuards (by the call that made them)
    alive,                \* the Detailer has not been dropped
    sink,                 \* the records handed to log::log!, in order
    now,                  \* the last reading of the monotonic clock, Instant::now()
    calls,                \* the number of log and scope calls made so far
    last,                 \* the last operation and its arguments
    entered,              \* for each live guard, the depth and the live guards
                          \* when DetailScopeGuard::new made it
    held,                 \* the values of the counter a Relaxed load by the
                          \* Detailer's thread may return, in modification
                          \* order: the last is the current one, those before
                          \* it are older ones it has not yet seen replaced
    loaded                \* the log call in progress on the Detailer's thread,
                          \* between its load of the depth and its writes

vars == <<level, accumulated, current_indentation, start, guards, alive,
          sink, now, calls, last, entered, held, loaded>>

-----------------------------------------------------------------------------
(* Bounds *)

\* the number of log/scope calls in a behaviour
MaxCalls == 3

\* the instants the clock can show
Instants == {0, 1000000}

\* the messages the caller passes to log
Messages == { <<>>, <<"a", "\n", "b">> }

\* the names the caller passes to scope
ScopeNames == { <<"s">> }

-----------------------------------------------------------------------------
(* The log crate's levels *)

Levels == {"Error", "Warn", "Info", "Debug", "Trace"}

LevelFilters == {"Off"} \cup Levels

TimingSettings == {"WithTiming", "WithoutTiming"}

\* Option<T>: None is the empty sequence, Some(x) is <<x>>
None == <<>>

Some(x) == <<x>>

\* log::Level and log::LevelFilter are #[repr(usize)] enums compared by value
AsUsize(l) ==
    CASE l = "Off"   -> 0
      [] l = "Error" -> 1
      [] l = "Warn"  -> 2
      [] l = "Info"  -> 3
      [] l = "Debug" -> 4
      [] l = "Trace" -> 5

\* mutants of Passes: the boundary excluded; the comparison reversed
PassesStrict(lvl, filter) == AsUsize(lvl) < AsUsize(filter)

PassesReversed(lvl, filter) == AsUsize(lvl) >= AsUsize(filter)

\* `level <= self.level`
Passes(lvl, filter) == AsUsize(lvl) <= AsUsize(filter)

\* LevelFilter::to_level
ToLevel(filter) == IF filter = "Off" THEN None ELSE Some(filter)

UnwrapOr(opt, default) == IF opt = None THEN default ELSE opt[1]

-----------------------------------------------------------------------------
(* Text *)

Space == " "
Newline == "\n"

DigitChars == <<"0", "1", "2", "3", "4", "5", "6", "7", "8", "9">>

RECURSIVE Decimal(_)
\* Display for u64
Decimal(n) ==
    IF n < 10 THEN <<DigitChars[n + 1]>>
    ELSE Decimal(n \div 10) \o <<DigitChars[(n % 10) + 1]>>

RECURSIVE Spaces(_)
Spaces(n) == IF n <= 0 THEN <<>> ELSE <<Space>> \o Spaces(n - 1)

\* the width of the timing field
TimingWidth == 6

\* mutant of FormatElapsed: right-justified
FormatElapsedRight(elapsed) ==
    LET digits == Decimal(elapsed)
    IN  Spaces(TimingWidth - Len(digits)) \o digits \o <<Space>>

\* format_args!("{elapsed:<6} "): left-justified, padded to the width, one space
FormatElapsed(elapsed) ==
    LET digits == Decimal(elapsed)
    IN  digits \o Spaces(TimingWidth - Len(digits)) \o <<Space>>

\* mutant of Elapsed: the clock itself, not the time since the origin
ElapsedSinceEpoch(st, clock) == clock

\* start.elapsed().as_micros() as u64
Elapsed(st, clock) == clock - st[1]

\* the timing prefix of a line: `if let Some(start) = &self.start`
TimingPrefix(st, clock) ==
    IF st = None THEN <<>> ELSE FormatElapsed(Elapsed(st, clock))

RECURSIVE IndentHalf(_)
\* mutant of Indent: one space per level
IndentHalf(depth) == IF depth <= 0 THEN <<>> ELSE <<Space>> \o IndentHalf(depth - 1)

RECURSIVE Indent(_)
\* for _ in 0..current_indentation { write_str("  ") }
Indent(depth) == IF depth <= 0 THEN <<>> ELSE <<Space, Space>> \o Indent(depth - 1)

RECURSIVE Split(_)
\* str::split('\n'): the pieces between newlines; always at least one piece
Split(s) ==
    IF \A i \in 1..Len(s) : s[i] # Newline THEN <<s>>
    ELSE LET i == CHOOSE k \in 1..Len(s) :
                      s[k] = Newline /\ \A j \in 1..(k - 1) : s[j] # Newline
         IN  <<SubSeq(s, 1, i - 1)>> \o Split(SubSeq(s, i + 1, Len(s)))

IsWhitespace(c) == c \in {Space, Newline, "\t", "\r"}

RECURSIVE TrimEnd(_)
\* str::trim_end
TrimEnd(s) ==
    IF s = <<>> THEN s
    ELSE IF IsWhitespace(s[Len(s)]) THEN TrimEnd(SubSeq(s, 1, Len(s) - 1))
    ELSE s

RECURSIVE IndentedLinesFlat(_, _)
\* mutant of IndentedLines: the lines after the first are not indented
IndentedLinesFlat(lines, depth) ==
    IF lines = <<>> THEN <<>>
    ELSE Head(lines) \o <<Newline>> \o IndentedLinesFlat(Tail(lines), depth)

RECURSIVE IndentedLines(_, _)
\* `for line in lines`: indentation, the line, a newline
IndentedLines(lines, depth) ==
    IF lines = <<>> THEN <<>>
    ELSE Indent(depth) \o Head(lines) \o <<Newline>>
         \o IndentedLines(Tail(lines), depth)

RECURSIVE TimedLines(_, _, _, _)
TimedLines(lines, depth, st, clock) ==
    IF lines = <<>> THEN <<>>
    ELSE TimingPrefix(st, clock) \o Indent(depth) \o Head(lines) \o <<Newline>>
         \o TimedLines(Tail(lines), depth, st, clock)

\* mutant of LogText: every line of the message gets the timing field
LogTextEachLineTimed(depth, st, clock, message) ==
    TimedLines(Split(message), depth, st, clock)

\* mutant of LogText: the last line is left without its newline
LogTextUnterminated(depth, st, clock, message) ==
    IF 0 < depth
    THEN LET lines == Split(message)
             text  == TimingPrefix(st, clock) \o Indent(depth) \o Head(lines)
                      \o <<Newline>> \o IndentedLines(Tail(lines), depth)
         IN  SubSeq(text, 1, Len(text) - 1)
    ELSE TimingPrefix(st, clock) \o message

\* the text one accepted log call writes, at the depth it loaded
LogText(depth, st, clock, message) ==
    IF 0 < depth
    THEN LET lines == Split(message)
         IN  TimingPrefix(st, clock) \o Indent(depth) \o Head(lines) \o <<Newline>>
             \o IndentedLines(Tail(lines), depth)
    ELSE TimingPrefix(st, clock) \o message \o <<Newline>>

\* DetailScopeGuard::new: fetch_add(1, Relaxed)
FetchAdd(v) == v + 1

\* mutant of FetchSub: the release is skipped
FetchSubSkipped(v) == v

\* DetailScopeGuard::drop: fetch_sub(1, Relaxed)
FetchSub(v) == v - 1

\* mutant of LogAppend: the new text goes in front of the old
LogPrepend(acc, filter, depth, st, clock, lvl, message) ==
    IF Passes(lvl, filter) THEN LogText(depth, st, clock, message) \o acc ELSE acc

\* Detailer::log: the buffer after the call
LogAppend(acc, filter, depth, st, clock, lvl, message) ==
    IF Passes(lvl, filter) THEN acc \o LogText(depth, st, clock, message) ELSE acc

\* mutant of ScopeAppend: the guard is made before the scope line is logged
ScopeAppendInside(acc, filter, depth, st, clock, scope_name) ==
    IF ToLevel(filter) # None
    THEN LogAppend(acc, filter, FetchAdd(depth), st, clock, ToLevel(filter)[1], scope_name)
    ELSE acc

\* Detailer::scope, up to the guard: the buffer after the scope line
ScopeAppend(acc, filter, depth, st, clock, scope_name) ==
    IF ToLevel(filter) # None
    THEN LogAppend(acc, filter, depth, st, clock, ToLevel(filter)[1], scope_name)
    ELSE acc

\* mutant of Cleared: the buffer is kept
ClearedNot(acc) == acc

\* Detailer::reset: accumulated.clear()
Cleared(acc) == <<>>

\* mutant of ResetStart: the timer is started whether or not there is one
ResetStartAlways(st, clock) == Some(clock)

\* Detailer::reset: the timer restarts only when there is one
ResetStart(st, clock) == IF st # None THEN Some(clock) ELSE st

\* mutants of Emit: the buffer is emitted untrimmed; nothing is emitted
EmitUntrimmed(records, filter, acc) ==
    IF acc # <<>>
    THEN Append(records, [level |-> UnwrapOr(ToLevel(filter), "Info"), text |-> acc])
    ELSE records

EmitNothing(records, filter, acc) == records

\* Detailer::flush: the records log::log! receives
Emit(records, filter, acc) ==
    LET to_flush == TrimEnd(acc)
    IN  IF to_flush # <<>>
        THEN Append(records, [level |-> UnwrapOr(ToLevel(filter), "Info"),
                              text  |-> to_flush])
        ELSE records

Op(name, lvl, message) == [op |-> name, level |-> lvl, message |-> message]

\* the record of guard g, made at this depth with these guards alive
Entered(records, g, depth, open) ==
    [h \in (DOMAIN records) \cup {g} |->
        IF h = g THEN [depth |-> depth, open |-> open] ELSE records[h]]

\* the records without that of guard g, which is gone
Left(records, g) == [h \in (DOMAIN records) \ {g} |-> records[h]]

-----------------------------------------------------------------------------
(* The clock *)

\* what Instant::now() can return in an operation that reads the clock
\* (monotonic: never before the last reading); an operation that does not
\* read it leaves the last reading as it is
ClockReads(reads) == IF reads THEN {t \in Instants : t >= now} ELSE {now}

-----------------------------------------------------------------------------
(* The state after Detailer::new(level, timing_setting) *)

Init ==
    /\ level \in LevelFilters
    /\ now = 0
    /\ \E timing_setting \in TimingSettings :
           /\ start = IF timing_setting = "WithTiming" THEN Some(now) ELSE None
           /\ last = Op("new", "-", <<timing_setting>>)
    /\ accumulated = <<>>
    /\ current_indentation = 0
    /\ guards = {}
    /\ alive = TRUE
    /\ sink = <<>>
    /\ calls = 0
    /\ entered = <<>>
    /\ held = <<0>>
    /\ loaded = None

\* mutant of LogAt: an accepted line is also handed to the sink at once
LogAtEmitting(lvl, message, t) ==
    /\ alive
    /\ now' = t
    /\ accumulated' = LogAppend(accumulated, level, current_indentation,
                                start, t, lvl, message)
    /\ sink' = Emit(sink, level, LogAppend(<<>>, level, current_indentation,
                                           start, t, lvl, message))
    /\ calls' = calls + 1
    /\ last' = Op("log", lvl, message)
    /\ UNCHANGED <<level, current_indentation, start, guards, alive, entered,
                   held, loaded>>

\* Detailer::log(level, message), the clock showing t if it is read
LogAt(lvl, message, t) ==
    /\ alive
    /\ now' = t
    /\ accumulated' = LogAppend(accumulated, level, current_indentation,
                                start, t, lvl, message)
    /\ calls' = calls + 1
    /\ last' = Op("log", lvl, message)
    /\ UNCHANGED <<level, current_indentation, start, guards, alive, sink,
                   entered, held, loaded>>

\* Detailer::log(level, message)
Log(lvl, message) ==
    /\ calls < MaxCalls
    /\ \E t \in ClockReads(Passes(lvl, level) /\ start # None) :
           LogAt(lvl, message, t)

\* Detailer::scope(scope_name), the clock showing t if it is read; the
\* caller keeps the guard it returns
ScopeAt(scope_name, t) ==
    /\ alive
    /\ now' = t
    /\ accumulated' = ScopeAppend(accumulated, level, current_indentation,
                                  start, t, scope_name)
    /\ current_indentation' = FetchAdd(current_indentation)
    /\ guards' = guards \cup {calls + 1}
    /\ entered' = Entered(entered, calls + 1, current_indentation, guards)
    /\ calls' = calls + 1
    /\ last' = Op("scope", "-", scope_name)
    /\ held' = <<current_indentation'>>
    /\ UNCHANGED <<level, start, alive, sink, loaded>>

\* Detailer::scope(scope_name)
Scope(scope_name) ==
    /\ calls < MaxCalls
    /\ \E t \in ClockReads(ToLevel(level) # None /\ start # None) :
           ScopeAt(scope_name, t)

\* Detailer::reset()
Reset ==
    /\ alive
    /\ accumulated' = Cleared(accumulated)
    /\ \E t \in ClockReads(start # None) :
           /\ now' = t
           /\ start' = ResetStart(start, t)
    /\ last' = Op("reset", "-", <<>>)
    /\ UNCHANGED <<level, current_indentation, guards, alive, sink, calls,
                   entered, held, loaded>>

\* Detailer::flush(): emit, then reset(), the clock showing t if it is read
FlushAt(t) ==
    /\ alive
    /\ sink' = Emit(sink, level, accumulated)
    /\ accumulated' = Cleared(accumulated)
    /\ now' = t
    /\ start' = ResetStart(start, t)
    /\ last' = Op("flush", "-", <<>>)
    /\ UNCHANGED <<level, current_indentation, guards, alive, calls, entered,
                   held, loaded>>

\* Detailer::flush()
Flush == \E t \in ClockReads(start # None) : FlushAt(t)

\* impl Drop for Detailer: flush(), then the Detailer is gone
DropDetailer ==
    /\ alive
    /\ sink' = Emit(sink, level, accumulated)
    /\ accumulated' = Cleared(accumulated)
    /\ \E t \in ClockReads(start # None) :
           /\ now' = t
           /\ start' = ResetStart(start, t)
    /\ alive' = FALSE
    /\ last' = Op("drop", "-", <<>>)
    /\ UNCHANGED <<level, current_indentation, guards, calls, entered, held,
                   loaded>>

\* impl Drop for DetailScopeGuard
DropGuard(g) ==
    /\ g \in guards
    /\ current_indentation' = FetchSub(current_indentation)
    /\ guards' = guards \ {g}
    /\ entered' = Left(entered, g)
    /\ last' = Op("release", "-", <<>>)
    /\ held' = <<current_indentation'>>
    /\ UNCHANGED <<level, accumulated, start, alive, sink, now, calls, loaded>>

Next ==
    \/ \E lvl \in Levels, message \in Messages : Log(lvl, message)
    \/ \E scope_name \in ScopeNames : Scope(scope_name)
    \/ Reset
    \/ Flush
    \/ DropDetailer
    \/ \E g \in guards : DropGuard(g)

Spec == Init /\ [][Next]_vars

\* Detailer::peek(): what is accumulated, unchanged
Peek == accumulated

-----------------------------------------------------------------------------
(* Guards released and made on other threads.  A DetailScopeGuard is Send:
   the thread it was moved to drops it while the Detailer's thread is inside
   log or scope, and DetailScopeGuard::new is public, so a thread holding a
   clone of a counter makes guards on it.  Every access is Relaxed: a
   fetch_add or fetch_sub is one indivisible step on the newest value, and a
   load returns the newest value or an older one the loading thread has not
   yet seen replaced. *)

\* mutant of Latest: the update is computed from the oldest value still
\* readable and stored over the newest
Stale(values) == values[1]

\* fetch_add, fetch_sub: a read-modify-write reads the last value in the
\* modification order of the counter
Latest(values) == values[Len(values)]

\* the value at position i and those after it: what a thread that has read
\* position i may still read
Since(values, i) == SubSeq(values, i, Len(values))

\* Detailer::log up to its load of the depth, which returns the value at
\* some position of what the thread may read
Load(op, lvl, message) ==
    /\ alive
    /\ calls < MaxCalls
    /\ loaded = None
    /\ Passes(lvl, level)
    /\ \E i \in DOMAIN held :
           /\ loaded' = Some([op |-> op, level |-> lvl, message |-> message,
                              depth |-> held[i]])
           /\ held' = Since(held, i)
    /\ UNCHANGED <<level, accumulated, current_indentation, start, guards,
                   alive, sink, now, calls, last, entered>>

\* Detailer::log(level, message), accepted, up to the load
LogLoad(lvl, message) == Load("log", lvl, message)

\* Detailer::log(level, message), from the load on: the lines are written
\* at the depth that was loaded
LogWrite ==
    /\ loaded # None
    /\ loaded[1].op = "log"
    /\ \E t \in ClockReads(start # None) :
           /\ now' = t
           /\ accumulated' = accumulated
                  \o LogText(loaded[1].depth, start, t, loaded[1].message)
    /\ calls' = calls + 1
    /\ last' = Op("log", loaded[1].level, loaded[1].message)
    /\ loaded' = None
    /\ UNCHANGED <<level, current_indentation, start, guards, alive, sink,
                   entered, held>>

\* Detailer::log(level, message), rejected: it returns before the load
LogRejected(lvl, message) ==
    /\ loaded = None
    /\ ~Passes(lvl, level)
    /\ Log(lvl, message)

\* Detailer::scope(scope_name), up to the load inside its log call
ScopeLoad(scope_name) ==
    /\ ToLevel(level) # None
    /\ Load("scope", ToLevel(level)[1], scope_name)

\* Detailer::scope(scope_name), from the load on: the scope line is
\* written at the depth that was loaded, then the guard is made
ScopeWrite ==
    /\ loaded # None
    /\ loaded[1].op = "scope"
    /\ \E t \in ClockReads(start # None) :
           /\ now' = t
           /\ accumulated' = accumulated
                  \o LogText(loaded[1].depth, start, t, loaded[1].message)
    /\ current_indentation' = FetchAdd(Latest(held))
    /\ held' = <<current_indentation'>>
    /\ guards' = guards \cup {calls + 1}
    /\ entered' = Entered(entered, calls + 1, current_indentation, guards)
    /\ calls' = calls + 1
    /\ last' = Op("scope", "-", loaded[1].message)
    /\ loaded' = None
    /\ UNCHANGED <<level, start, alive, sink>>

\* Detailer::scope(scope_name) with the filter Off: no log call, no load
ScopeUnlogged(scope_name) ==
    /\ loaded = None
    /\ ToLevel(level) = None
    /\ Scope(scope_name)

\* impl Drop for DetailScopeGuard on the Detailer's thread, between calls
OwnerRelease(g) ==
    /\ loaded = None
    /\ DropGuard(g)

\* DetailScopeGuard::new on another thread
ThreadNew ==
    /\ calls < MaxCalls
    /\ current_indentation' = FetchAdd(Latest(held))
    /\ held' = Append(held, current_indentation')
    /\ guards' = guards \cup {calls + 1}
    /\ entered' = Entered(entered, calls + 1, current_indentation, guards)
    /\ calls' = calls + 1
    /\ last' = Op("guard", "-", <<>>)
    /\ UNCHANGED <<level, accumulated, start, alive, sink, now, loaded>>

\* impl Drop for DetailScopeGuard on another thread
ThreadRelease(g) ==
    /\ g \in guards
    /\ current_indentation' = FetchSub(Latest(held))
    /\ held' = Append(held, current_indentation')
    /\ guards' = guards \ {g}
    /\ entered' = Left(entered, g)
    /\ last' = Op("release", "-", <<>>)
    /\ UNCHANGED <<level, accumulated, start, alive, sink, now, calls, loaded>>

ThreadsNext ==
    \/ \E lvl \in Levels, message \in Messages : LogLoad(lvl, message)
    \/ LogWrite
    \/ \E lvl \in Levels, message \in Messages : LogRejected(lvl, message)
    \/ \E scope_name \in ScopeNames : ScopeLoad(scope_name)
    \/ ScopeWrite
    \/ \E scope_name \in ScopeNames : ScopeUnlogged(scope_name)
    \/ \E g \in guards : OwnerRelease(g)
    \/ ThreadNew
    \/ \E g \in guards : ThreadRelease(g)

SpecThreads == Init /\ [][ThreadsNext]_vars

-----------------------------------------------------------------------------
(* Vocabulary of the properties *)

\* the step just taken was this operation (every operation records itself)
LogStep == last'.op = "log" /\ calls' = calls + 1
ScopeStep == last'.op = "scope" /\ calls' = calls + 1
ResetStep == last'.op = "reset"
FlushStep == last'.op = "flush"
DropStep == last'.op = "drop" /\ alive /\ ~alive'
ReleaseStep == last'.op = "release" /\ guards' # guards

\* severities from least to most verbose
VerbosityOrder == <<"Error", "Warn", "Info", "Debug", "Trace">>

Verbosity(l) == CHOOSE i \in 1..Len(VerbosityOrder) : VerbosityOrder[i] = l

\* severity s is no more verbose than threshold t; Off admits nothing
NoMoreVerbose(s, t) == t # "Off" /\ Verbosity(s) <= Verbosity(t)

IsPrefix(p, s) == Len(p) <= Len(s) /\ SubSeq(s, 1, Len(p)) = p

\* what a step added at the end of the buffer
Added == SubSeq(accumulated', Len(accumulated) + 1, Len(accumulated'))

IsDigit(c) == \E i \in 1..Len(DigitChars) : DigitChars[i] = c

RECURSIVE LeadingDigits(_)
\* how many digits a text starts with
LeadingDigits(s) ==
    IF s # <<>> /\ IsDigit(Head(s)) THEN 1 + LeadingDigits(Tail(s)) ELSE 0

RECURSIVE LeadingSpaces(_)
\* how many spaces a text starts with
LeadingSpaces(s) ==
    IF s # <<>> /\ Head(s) = Space THEN 1 + LeadingSpaces(Tail(s)) ELSE 0

Drop(s, n) == SubSeq(s, n + 1, Len(s))

\* the characters of a text that are neither timing digits nor white space
Letters(s) == SelectSeq(s, LAMBDA c : ~IsDigit(c) /\ ~IsWhitespace(c))

RECURSIVE FirstLine(_)
\* a text up to its first newline
FirstLine(s) ==
    IF s = <<>> \/ Head(s) = Newline THEN <<>> ELSE <<Head(s)>> \o FirstLine(Tail(s))

\* the width of the timing field a text starts with: the digits,
\* left-justified in 6 columns at least, and one space; 0 without timing
FieldWidth(text, timed) ==
    LET nd == LeadingDigits(text)
    IN  IF ~timed THEN 0 ELSE (IF nd < 6 THEN 6 ELSE nd) + 1

\* text starts with a line that holds the first line of message behind
\* exactly 2*depth spaces, and behind the timing field when there is one
StartsWithLine(text, depth, timed, message) ==
    LET nd    == LeadingDigits(text)
        field == FieldWidth(text, timed)
        rest  == Drop(text, field)
    IN  /\ timed => nd >= 1 /\ LeadingSpaces(Drop(text, nd)) >= field - nd
        /\ ~timed => nd = 0
        /\ LeadingSpaces(rest) = 2 * depth
        /\ IsPrefix(FirstLine(message) \o <<Newline>>, Drop(rest, 2 * depth))

\* the text without its trailing white space
Trimmed(text) ==
    CHOOSE t \in {SubSeq(text, 1, n) : n \in 0..Len(text)} :
        /\ \A i \in (Len(t) + 1)..Len(text) : IsWhitespace(text[i])
        /\ t # <<>> => ~IsWhitespace(t[Len(t)])

-----------------------------------------------------------------------------
(* C1 *)

\* C1: a log call changes the buffer if and only if its severity is no more
\* verbose than the threshold; with threshold Off no log call changes it; a
\* call that does not pass leaves the buffer exactly as it was.
LogFiltersBySeverity ==
    [][LogStep =>
          /\ (accumulated' # accumulated) <=> NoMoreVerbose(last'.level, level)
          /\ level = "Off" => accumulated' = accumulated
          /\ NoMoreVerbose(last'.level, level) =>
                 Len(accumulated') > Len(accumulated)]_vars

\* a log call at exactly the threshold has been accepted
LogFiltersBySeverityWitness ==
    /\ last.op = "log"
    /\ last.level = "Info"
    /\ level = "Info"
    /\ accumulated = <<"a", Newline, "b", Newline>>

-----------------------------------------------------------------------------
(* C2 *)

\* C2: the depth equals the number of live guards, whatever the order of
\* the releases; with every guard released it is 0 again.
DepthCountsLiveGuards ==
    /\ current_indentation = Cardinality(guards)
    /\ guards = {} => current_indentation = 0

\* the last of three guards outlives an earlier one
DepthCountsLiveGuardsWitness ==
    /\ last.op = "release"
    /\ guards = {1, 3}
    /\ current_indentation = 2

-----------------------------------------------------------------------------
(* C3 *)

\* C3: an accepted log or scope call puts its text behind everything the
\* buffer held, and changes nothing of what it held.
LinesInCallOrder ==
    [][(LogStep \/ ScopeStep) =>
          /\ IsPrefix(accumulated, accumulated')
          /\ Len(accumulated') > Len(accumulated) =>
                 Letters(Added) = Letters(last'.message)]_vars

\* a scope line, then a two-line message, in one buffer
LinesInCallOrderWitness ==
    /\ last.op = "log"
    /\ Letters(accumulated) = <<"s", "a", "b">>

-----------------------------------------------------------------------------
(* C4 *)

\* C4: a line accepted at depth d has exactly 2*d spaces right before its
\* text, behind the timing field when timing is on; none at depth 0.
LineIndentedByDepth ==
    [][(LogStep /\ accumulated' # accumulated) =>
          /\ StartsWithLine(Added, current_indentation, start # None, last'.message)
          /\ current_indentation = 0 =>
                 Drop(Added, FieldWidth(Added, start # None))
                     = last'.message \o <<Newline>>]_vars

\* a timed line written inside two scopes
LineIndentedByDepthWitness ==
    /\ last.op = "log"
    /\ current_indentation = 2
    /\ start # None
    /\ Letters(accumulated) = <<"s", "s", "a", "b">>

-----------------------------------------------------------------------------
(* C5 *)

\* C5: flush sends exactly one record, the buffer without its trailing
\* white space at the configured level, when that text is not empty, and
\* nothing when it is; either way the buffer is empty afterwards.
FlushEmitsTrimmedOnce ==
    [][FlushStep =>
          /\ accumulated' = <<>>
          /\ IF Trimmed(accumulated) # <<>>
             THEN sink' = Append(sink, [level |-> level,
                                        text  |-> Trimmed(accumulated)])
             ELSE sink' = sink]_vars

\* a flush has emitted a buffer of two calls
FlushEmitsTrimmedOnceWitness ==
    /\ last.op = "flush"
    /\ Len(sink) = 1
    /\ Letters(sink[1].text) = <<"s", "a", "b">>
    /\ accumulated = <<>>

-----------------------------------------------------------------------------
(* C6 *)

\* C6 as stated: whatever the buffer holds at destruction is emitted as one
\* record.
DropEmitsWhateverIsBuffered ==
    [][(DropStep /\ accumulated # <<>>) => Len(sink') = Len(sink) + 1]_vars

\* C6, amended: destruction flushes exactly once: a buffer that holds more
\* than white space is emitted as one record, its text without the trailing
\* white space; a buffer of white space alone is discarded without a record;
\* nothing is emitted once the accumulator is gone.
DropFlushesOnce ==
    [][/\ DropStep =>
             /\ accumulated' = <<>>
             /\ IF \E i \in 1..Len(accumulated) : ~IsWhitespace(accumulated[i])
                THEN sink' = Append(sink, [level |-> level,
                                           text  |-> Trimmed(accumulated)])
                ELSE sink' = sink
       /\ ~alive => sink' = sink /\ ~alive']_vars

\* the accumulator was dropped with two calls' text in the buffer, which
\* is now the only record
DropFlushesOnceWitness ==
    /\ last.op = "drop"
    /\ ~alive
    /\ Len(sink) = 1
    /\ Letters(sink[1].text) = <<"a", "b", "s">>

-----------------------------------------------------------------------------
(* C7 *)

\* C7: a record is emitted only from a buffer that is not empty and the
\* step that emits it empties the buffer, so no text reaches two records;
\* a flush or destruction that finds the buffer empty, as it is right after
\* a flush, emits nothing.
OneEmissionPerCycle ==
    [][/\ sink' # sink =>
             /\ Len(sink') = Len(sink) + 1
             /\ IsPrefix(sink, sink')
             /\ IsPrefix(sink'[Len(sink')].text, accumulated)
             /\ accumulated' = <<>>
       /\ ((FlushStep \/ DropStep) /\ (accumulated = <<>> \/ last.op = "flush"))
             => sink' = sink]_vars

\* two cycles of one call each have ended in a flush, each with its own
\* record, and the buffer is empty for the next flush
OneEmissionPerCycleWitness ==
    /\ last.op = "flush"
    /\ calls = 2
    /\ Len(sink) = 2
    /\ Letters(sink[1].text) = <<"s">>
    /\ Letters(sink[2].text) = <<"a", "b">>
    /\ accumulated = <<>>

-----------------------------------------------------------------------------
(* C8 *)

\* C8: with threshold Off the buffer stays empty and nothing reaches the
\* sink, whatever is called.
OffNeverBuffersNorEmits ==
    level = "Off" => Len(accumulated) = 0 /\ sink = <<>>

\* a disabled accumulator dropped after scope and log calls
OffNeverBuffersNorEmitsWitness ==
    /\ level = "Off"
    /\ ~alive
    /\ calls = MaxCalls
    /\ guards # {}

-----------------------------------------------------------------------------
(* C9 *)

\* C9: with a threshold other than Off, scope always appends its name, at
\* the depth in force before the call, and the depth is one more afterwards,
\* for the guard it returns.
ScopeLogsThenIndents ==
    [][(ScopeStep /\ level # "Off") =>
          /\ Len(accumulated') > Len(accumulated)
          /\ StartsWithLine(Added, current_indentation, start # None,
                            last'.message)
          /\ Letters(Added) = Letters(last'.message)
          /\ current_indentation' = current_indentation + 1
          /\ Cardinality(guards') = Cardinality(guards) + 1]_vars

\* a second scope, entered inside the first
ScopeLogsThenIndentsWitness ==
    /\ last.op = "scope"
    /\ level = "Error"
    /\ current_indentation = 2
    /\ Letters(accumulated) = <<"s", "s">>

-----------------------------------------------------------------------------
(* C10 *)

\* C10 as stated: right after a flush, a reset or the destruction the
\* buffer is empty and the depth reads 0.
CycleEndsAtDepthZero ==
    last.op \in {"flush", "reset", "drop"} =>
        accumulated = <<>> /\ current_indentation = 0

\* C10, amended: a flush, a reset or the destruction leaves the buffer
\* empty and the depth as it was, the number of guards still open; the depth
\* reads 0 afterwards only when every guard had been released.
CycleEndsEmptyAtOpenDepth ==
    [][(FlushStep \/ ResetStep \/ DropStep) =>
          /\ accumulated' = <<>>
          /\ current_indentation' = current_indentation
          /\ current_indentation' = Cardinality(guards')
          /\ (current_indentation' = 0) <=> (guards' = {})]_vars

\* a reset with one guard open, after text was buffered
CycleEndsEmptyAtOpenDepthWitness ==
    /\ last.op = "reset"
    /\ guards # {}
    /\ current_indentation = 1
    /\ calls = 2
    /\ level = "Info"

-----------------------------------------------------------------------------
(* C11 *)

\* the guard a release step destroyed
Released == CHOOSE g \in guards : g \notin guards'

-----------------------------------------------------------------------------
(* C12 *)

\* C12: between calls the buffer peek returns is empty or ends with a
\* newline: no partial line is ever left in it.
PeekEndsWithCompleteLine ==
    Peek = <<>> \/ Peek[Len(Peek)] = Newline

\* three complete lines of two calls are in the buffer
PeekEndsWithCompleteLineWitness ==
    /\ last.op = "scope"
    /\ Peek = <<"a", Newline, "b", Newline, "s", Newline>>

-----------------------------------------------------------------------------
(* C13: the end-to-end scenario *)

\* the instants the clock can show during the scenario
ScenarioInstants == {0, 14, 16, 837, 1000000}

ScenarioReads == {t \in ScenarioInstants : t >= now}

TextStart == <<"s", "t", "a", "r", "t">>
TextWork == <<"w", "o", "r", "k">>
TextStepOne == <<"s", "t", "e", "p", " ", "o", "n", "e">>
TextDone == <<"d", "o", "n", "e">>

\* construct(Info, timing on)
ScenarioInit == Init /\ level = "Info" /\ start # None

\* log(Info, "start")
ScenarioLogStart ==
    /\ last.op = "new"
    /\ \E t \in ScenarioReads : LogAt("Info", TextStart, t)

\* scope("work")
ScenarioScopeWork ==
    /\ last = Op("log", "Info", TextStart)
    /\ \E t \in ScenarioReads : ScopeAt(TextWork, t)

\* log(Info, "step one")
ScenarioLogStepOne ==
    /\ last.op = "scope"
    /\ \E t \in ScenarioReads : LogAt("Info", TextStepOne, t)

\* the guard is released
ScenarioRelease ==
    /\ last = Op("log", "Info", TextStepOne)
    /\ \E g \in guards : DropGuard(g)

\* log(Info, "done")
ScenarioLogDone ==
    /\ last.op = "release"
    /\ \E t \in ScenarioReads : LogAt("Info", TextDone, t)

\* flush()
ScenarioFlush ==
    /\ last = Op("log", "Info", TextDone)
    /\ \E t \in ScenarioReads : FlushAt(t)

ScenarioNext ==
    \/ ScenarioLogStart
    \/ ScenarioScopeWork
    \/ ScenarioLogStepOne
    \/ ScenarioRelease
    \/ ScenarioLogDone
    \/ ScenarioFlush

SpecScenario == ScenarioInit /\ [][ScenarioNext]_vars

RECURSIVE LinesOf(_)
\* the lines of a text, which are separated by newlines
LinesOf(text) ==
    LET first == FirstLine(text)
    IN  IF Len(first) = Len(text) THEN <<first>>
        ELSE <<first>> \o LinesOf(Drop(text, Len(first) + 1))

\* line is a run of digits padded with spaces to exactly 6 columns, one
\* space, then indent spaces, then the text
LineHasFixedField(line, indent, text) ==
    LET nd == LeadingDigits(line)
    IN  /\ 1 <= nd /\ nd <= 6
        /\ LeadingSpaces(Drop(line, nd)) = (6 - nd) + 1 + indent
        /\ Drop(line, 6 + 1 + indent) = text

\* line is a run of digits padded with spaces to 6 columns when it is
\* shorter, one space, then indent spaces, then the text
LineHasPaddedField(line, indent, text) ==
    LET nd == LeadingDigits(line)
        w  == IF nd < 6 THEN 6 ELSE nd
    IN  /\ 1 <= nd
        /\ LeadingSpaces(Drop(line, nd)) = (w - nd) + 1 + indent
        /\ Drop(line, w + 1 + indent) = text

ScenarioFlushed == last.op = "flush"

\* C13 as stated: the flush emits one record of 4 lines, each behind a
\* 6-wide timestamp field; "work" is indented 2 spaces and "step one" 4,
\* "start" and "done" are not indented.
ScenarioRecordAsStated ==
    ScenarioFlushed =>
        /\ Len(sink) = 1
        /\ LET lines == LinesOf(sink[1].text)
           IN  /\ Len(lines) = 4
               /\ LineHasFixedField(lines[1], 0, TextStart)
               /\ LineHasFixedField(lines[2], 2, TextWork)
               /\ LineHasFixedField(lines[3], 4, TextStepOne)
               /\ LineHasFixedField(lines[4], 0, TextDone)

\* C13, amended: the flush emits one record, at Info, of 4 lines, each
\* behind a timestamp field (the digits padded to 6 columns when they are
\* fewer, and one space); "work", logged before the depth is raised, is not
\* indented, "step one" is indented 2 spaces, "start" and "done" are not
\* indented.
ScenarioRecord ==
    ScenarioFlushed =>
        /\ Len(sink) = 1
        /\ sink[1].level = "Info"
        /\ accumulated = <<>>
        /\ LET lines == LinesOf(sink[1].text)
           IN  /\ Len(lines) = 4
               /\ LineHasPaddedField(lines[1], 0, TextStart)
               /\ LineHasPaddedField(lines[2], 0, TextWork)
               /\ LineHasPaddedField(lines[3], 2, TextStepOne)
               /\ LineHasPaddedField(lines[4], 0, TextDone)

\* the scenario has run to its flush, the last line written a second
\* after the construction
ScenarioRecordWitness ==
    /\ ScenarioFlushed
    /\ Len(sink) = 1
    /\ calls = 4
    /\ guards = {}
    /\ LeadingDigits(LinesOf(sink[1].text)[1]) = 1
    /\ LeadingDigits(LinesOf(sink[1].text)[4]) = 7

-----------------------------------------------------------------------------
(* C14 *)

DigitValue(c) == (CHOOSE i \in 1..Len(DigitChars) : DigitChars[i] = c) - 1

RECURSIVE ParseDecimal(_)
\* the number a run of digits writes
ParseDecimal(digits) ==
    IF digits = <<>> THEN 0
    ELSE 10 * ParseDecimal(SubSeq(digits, 1, Len(digits) - 1))
         + DigitValue(digits[Len(digits)])

\* the number a text starts with
LeadingNumber(text) == ParseDecimal(SubSeq(text, 1, LeadingDigits(text)))

RECURSIVE NumbersOf(_)
NumbersOf(lines) ==
    IF lines = <<>> THEN <<>>
    ELSE (IF LeadingDigits(Head(lines)) > 0
          THEN <<LeadingNumber(Head(lines))>> ELSE <<>>)
         \o NumbersOf(Tail(lines))

\* the timestamps written in a text, in order: the numbers its lines start
\* with (no message of the model holds a digit)
Timestamps(text) == NumbersOf(LinesOf(text))

\* C14: with timing on, the timestamp an accepted log or scope call writes
\* is the time elapsed since the origin (the construction or the last reset)
\* and is no smaller than any timestamp already in the buffer.
TimestampsNonDecreasing ==
    [][((LogStep \/ ScopeStep) /\ accumulated' # accumulated /\ start # None) =>
          /\ LeadingDigits(Added) >= 1
          /\ LeadingNumber(Added) = now' - start[1]
          /\ Timestamps(Added) = <<LeadingNumber(Added)>>
          /\ \A i \in 1..Len(Timestamps(accumulated)) :
                 Timestamps(accumulated)[i] <= LeadingNumber(Added)]_vars

\* a line written a second after the line before it, in one cycle
TimestampsNonDecreasingWitness ==
    /\ last.op = "log"
    /\ start = Some(0)
    /\ sink = <<>>
    /\ calls = 3
    /\ Timestamps(accumulated) = <<0, 1000000>>

-----------------------------------------------------------------------------
(* C15 *)

\* C15: reset empties the buffer, moves the origin to the current instant
\* when there is an origin and leaves it absent otherwise, sends nothing to
\* the sink and leaves the depth, the guards and the threshold alone; a line
\* accepted right after it is indented by the guards still open.
ResetKeepsDepth ==
    [][/\ ResetStep =>
             /\ accumulated' = <<>>
             /\ start # None => start' = Some(now') /\ now' >= now
             /\ start = None => start' = None
             /\ sink' = sink
             /\ current_indentation' = current_indentation
             /\ guards' = guards
             /\ level' = level
             /\ alive' = alive
       /\ (last.op = "reset" /\ LogStep /\ accumulated' # accumulated) =>
             StartsWithLine(Added, Cardinality(guards), start # None,
                            last'.message)]_vars

\* a reset a second after a scope was entered, then an empty message logged
\* inside the scope: time 0 again, still 2 spaces of indentation
ResetKeepsDepthWitness ==
    /\ last.op = "log"
    /\ calls = 2
    /\ guards = {1}
    /\ sink = <<>>
    /\ start = Some(1000000)
    /\ accumulated = <<"0", Space, Space, Space, Space, Space, Space,
                       Space, Space, Newline>>

-----------------------------------------------------------------------------
(* C16 *)

\* line is exactly indent spaces and then the text
IndentedBy(line, indent, text) ==
    /\ Len(line) = indent + Len(text)
    /\ \A i \in 1..indent : line[i] = Space
    /\ Drop(line, indent) = text

\* C16: a message accepted at depth d > 0 is written one buffer line per
\* line of the message, each behind 2*d spaces and ended by a newline; the
\* timing field, when timing is on, comes once, before the indentation of
\* the first line.
MessageSplitWhenIndented ==
    [][(LogStep /\ accumulated' # accumulated /\ current_indentation > 0) =>
          LET written == LinesOf(Added)
              given   == LinesOf(last'.message)
              field   == FieldWidth(Added, start # None)
          IN  /\ Len(written) = Len(given) + 1
              /\ written[Len(written)] = <<>>
              /\ start # None => LeadingDigits(written[1]) >= 1
              /\ IndentedBy(Drop(written[1], field), 2 * current_indentation,
                            given[1])
              /\ \A i \in 2..Len(given) :
                     IndentedBy(written[i], 2 * current_indentation, given[i])
              /\ Len(Timestamps(Added)) = IF start # None THEN 1 ELSE 0]_vars

\* a timed two-line message written inside two scopes
MessageSplitWhenIndentedWitness ==
    /\ last = Op("log", "Error", <<"a", Newline, "b">>)
    /\ current_indentation = 2
    /\ start # None
    /\ Len(accumulated) > 4
    /\ Drop(accumulated, Len(accumulated) - 6)
           = <<Space, Space, Space, Space, "b", Newline>>

-----------------------------------------------------------------------------
(* C17 *)

\* C17: a message accepted at depth 0 makes the buffer grow by the timing
\* field (once, and only with timing on), the message as it is, newlines
\* included and nothing put behind them, and one newline.
MessageRawAtDepthZero ==
    [][(LogStep /\ accumulated' # accumulated /\ current_indentation = 0) =>
          LET field == FieldWidth(Added, start # None)
              nd    == LeadingDigits(Added)
          IN  /\ Len(Added) = field + Len(last'.message) + 1
              /\ Drop(Added, field) = last'.message \o <<Newline>>
              /\ start # None =>
                     /\ nd >= 1
                     /\ \A i \in (nd + 1)..field : Added[i] = Space
              /\ start = None => field = 0
              /\ Len(Timestamps(Added)) = IF start # None THEN 1 ELSE 0]_vars

\* a timed two-line message written outside any scope
MessageRawAtDepthZeroWitness ==
    /\ last = Op("log", "Warn", <<"a", Newline, "b">>)
    /\ current_indentation = 0
    /\ accumulated = <<"0", Space, Space, Space, Space, Space, Space,
                       "a", Newline, "b", Newline>>

-----------------------------------------------------------------------------
(* C18 *)

\* C18: a log call, accepted or not, changes nothing but the buffer: not
\* the sink, the depth, the guards, the threshold or the origin; a record
\* reaches the sink only in a flush or in the destruction.
LogTouchesBufferOnly ==
    [][/\ LogStep =>
             /\ sink' = sink
             /\ current_indentation' = current_indentation
             /\ guards' = guards
             /\ level' = level
             /\ start' = start
             /\ alive' = alive
       /\ sink' # sink => FlushStep \/ DropStep]_vars

\* a line accepted in the cycle after one that was flushed
LogTouchesBufferOnlyWitness ==
    /\ last.op = "log"
    /\ accumulated = <<"a", Newline, "b", Newline>>
    /\ Len(sink) = 1
    /\ Letters(sink[1].text) = <<"s">>
    /\ current_indentation = 0

-----------------------------------------------------------------------------
(* C19 *)

\* C19: the origin is there exactly when timing was asked for at the
\* construction, and stays so.  With it, an accepted call writes first the
\* elapsed microseconds in decimal, left-justified and padded with spaces
\* to 6 columns (a longer count is written in full), then exactly one space,
\* then the indentation.  Without it no digit and no padding is written.
TimingFieldFormat ==
    [][/\ last.op = "new" => ((start # None) <=> (last.message = <<"WithTiming">>))
       /\ (start = None) <=> (start' = None)
       /\ ((LogStep \/ ScopeStep) /\ accumulated' # accumulated) =>
             LET nd == LeadingDigits(Added)
             IN  IF start # None
                 THEN /\ nd >= 1
                      /\ nd > 1 => Added[1] # "0"
                      /\ LeadingNumber(Added) = now' - start[1]
                      /\ LeadingSpaces(Drop(Added, nd))
                            = (IF nd < 6 THEN 6 - nd ELSE 0) + 1
                              + 2 * current_indentation
                 ELSE /\ \A i \in 1..Len(Added) : ~IsDigit(Added[i])
                      /\ LeadingSpaces(Added) = 2 * current_indentation]_vars

\* a count of 7 digits, written in full before the one space
TimingFieldFormatWitness ==
    /\ last = Op("log", "Info", <<>>)
    /\ accumulated = <<"1", "0", "0", "0", "0", "0", "0", Space, Newline>>


-----------------------------------------------------------------------------
(* C20 *)

\* the values a load may return
Readable == { held[i] : i \in DOMAIN held }

\* C20: with guards made and released on other threads between the steps
\* of the Detailer's own calls, no increment or decrement is lost: the
\* counter is always the number of guards alive, so it is once every
\* thread has finished.  A log call that runs meanwhile loads one of the
\* values the counter has held, and indents its line by that value.
ThreadsLoseNoUpdate ==
    [][/\ current_indentation = Cardinality(guards)
       /\ current_indentation' = Cardinality(guards')
       /\ (loaded = None /\ loaded' # None) =>
              /\ loaded'[1].depth \in Readable
              /\ loaded'[1].depth \in 0..calls
       /\ (loaded # None /\ loaded' = None) =>
              StartsWithLine(Added, loaded[1].depth, start # None,
                             loaded[1].message)]_vars

\* a guard was made on the Detailer's thread and released on another; the
\* log call after it loaded the older value 1 and indented by it, while
\* the counter is 0 and no guard is alive
ThreadsLoseNoUpdateWitness ==
    /\ last = Op("log", "Info", <<>>)
    /\ guards = {}
    /\ current_indentation = 0
    /\ accumulated = <<"s", Newline, Space, Space, Newline>>

====
